---------------------------- MODULE Spec2Model ----------------------------
(***************************************************************************)
(* A model of backend/server.py of the mental-health chatbot: the crisis   *)
(* detector, the context assembly and generation fallback of               *)
(* generate_ai_response, the /chat, get_session, get_sentiment_trends and  *)
(* delete handlers over the document store, and the start-up sweep.        *)
(*                                                                         *)
(* Texts are sequences of strings whose concatenation is the text.  A text *)
(* that the code inspects (a user message, a reply of the generation       *)
(* service) is a sequence of one-character strings; a fixed text of the    *)
(* source that is only stored and compared (the system prompt, the         *)
(* fallback replies) is a sequence of a few longer pieces.                 *)
(*                                                                         *)
(* An Optional value is a sequence of length 0 (None) or 1.                *)
(***************************************************************************)
EXTENDS Integers, Sequences, FiniteSets, TLC

VARIABLES
  text_in,      \* the argument of detect_crisis (pure-function specification)
  crisis_out,   \* Optional: the value detect_crisis returned for text_in
  sessions,     \* db.sessions
  messages,     \* db.messages
  mood_entries, \* db.mood_entries
  clock,        \* the time, counted in documents created; also the last fresh id
  turn,         \* the /chat requests in flight: locals and position of each
  del,          \* the position of the delete_user_data request
  removed,      \* history: the ids of the messages a delete_many removed
  trend_out,    \* Optional: a get_sentiment_trends request and its response
  sweep,        \* the position of startup_cleanup and its old_session_ids
  fetch         \* Optional: a get_session request and its response

crisisVars == <<text_in, crisis_out>>
storeVars  == <<sessions, messages, mood_entries>>
chatVars   == <<clock, turn, del, removed>>
otherVars  == <<trend_out, sweep, fetch>>
vars       == <<text_in, crisis_out, sessions, messages, mood_entries,
               clock, turn, del, removed, trend_out, sweep, fetch>>

None    == <<>>
Some(v) == <<v>>

Range(s) == {s[i] : i \in 1..Len(s)}

-----------------------------------------------------------------------------
(* Characters and str.lower()                                              *)

UpperAlpha ==
  <<"A","B","C","D","E","F","G","H","I","J","K","L","M",
    "N","O","P","Q","R","S","T","U","V","W","X","Y","Z">>
LowerAlpha ==
  <<"a","b","c","d","e","f","g","h","i","j","k","l","m",
    "n","o","p","q","r","s","t","u","v","w","x","y","z">>
Digits == {"0","1","2","3","4","5","6","7","8","9"}

LowerChar(c) ==
  IF \E i \in 1..26 : UpperAlpha[i] = c
    THEN LowerAlpha[CHOOSE i \in 1..26 : UpperAlpha[i] = c]
    ELSE c

UpperChar(c) ==
  IF \E i \in 1..26 : LowerAlpha[i] = c
    THEN UpperAlpha[CHOOSE i \in 1..26 : LowerAlpha[i] = c]
    ELSE c

\* the characters \s matches and the characters \w matches
SpaceChars == {" ", "\t", "\n", "\r"}
WordChars  == Range(UpperAlpha) \cup Range(LowerAlpha) \cup Digits \cup {"_"}

\* a plausible slip: the text is matched as typed
lower_omitted(text) == text

\* text.lower()
lower(text) == [i \in 1..Len(text) |-> LowerChar(text[i])]

\* needle in hay, for Python strings
Contains(hay, needle) ==
  \E i \in 0..(Len(hay) - Len(needle)) :
     SubSeq(hay, i + 1, i + Len(needle)) = needle

-----------------------------------------------------------------------------
(* The crisis lists and the four regular expressions of detect_crisis      *)

CRISIS_KEYWORDS ==
  << <<"s","u","i","c","i","d","e">>,
     <<"k","i","l","l"," ","m","y","s","e","l","f">>,
     <<"e","n","d"," ","m","y"," ","l","i","f","e">>,
     <<"w","a","n","t"," ","t","o"," ","d","i","e">>,
     <<"h","a","r","m"," ","m","y","s","e","l","f">>,
     <<"s","e","l","f"," ","h","a","r","m">>,
     <<"c","u","t"," ","m","y","s","e","l","f">>,
     <<"o","v","e","r","d","o","s","e">>,
     <<"n","o","t"," ","w","o","r","t","h"," ","l","i","v","i","n","g">>,
     <<"b","e","t","t","e","r"," ","o","f","f"," ","d","e","a","d">>,
     <<"h","o","p","e","l","e","s","s">>,
     <<"c","a","n","'","t"," ","g","o"," ","o","n">>,
     <<"g","i","v","e"," ","u","p">>,
     <<"e","n","d"," ","i","t"," ","a","l","l">>,
     <<"h","u","r","t"," ","m","y","s","e","l","f">> >>

CRISIS_PHRASES ==
  << <<"i"," ","w","a","n","t"," ","t","o"," ","d","i","e">>,
     <<"i","'","m"," ","g","o","i","n","g"," ","t","o"," ","k","i","l","l"," ","m","y","s","e","l","f">>,
     <<"l","i","f","e"," ","i","s","n","'","t"," ","w","o","r","t","h"," ","l","i","v","i","n","g">>,
     <<"i"," ","c","a","n","'","t"," ","t","a","k","e"," ","i","t"," ","a","n","y","m","o","r","e">>,
     <<"n","o","b","o","d","y"," ","w","o","u","l","d"," ","m","i","s","s"," ","m","e">>,
     <<"i","'","m"," ","d","o","n","e"," ","w","i","t","h"," ","l","i","f","e">> >>

\* the elements of a pattern: \b, \s+ and a literal run of characters
B      == [kind |-> "b",   lit |-> <<>>]
S      == [kind |-> "s+",  lit |-> <<>>]
Lit(w) == [kind |-> "lit", lit |-> w]

crisis_patterns ==
  << <<B, Lit(<<"i">>), S, Lit(<<"w","a","n","t">>), S, Lit(<<"t","o">>), S,
       Lit(<<"d","i","e">>), B>>,
     <<B, Lit(<<"k","i","l","l">>), S, Lit(<<"m","y","s","e","l","f">>), B>>,
     <<B, Lit(<<"c","o","m","m","i","t">>), S,
       Lit(<<"s","u","i","c","i","d","e">>), B>>,
     <<B, Lit(<<"e","n","d">>), S, Lit(<<"m","y">>), S,
       Lit(<<"l","i","f","e">>), B>> >>

\* \b between the characters pos and pos+1 of s (0 and Len(s) are its ends)
IsWordAt(s, i) == i >= 1 /\ i <= Len(s) /\ s[i] \in WordChars
AtWordBoundary(s, pos) == IsWordAt(s, pos) # IsWordAt(s, pos + 1)

\* the elements k.. of pat match s from the position after pos characters
RECURSIVE MatchFrom(_, _, _, _)
MatchFrom(pat, k, s, pos) ==
  IF k > Len(pat) THEN TRUE
  ELSE CASE pat[k].kind = "b" ->
              AtWordBoundary(s, pos) /\ MatchFrom(pat, k + 1, s, pos)
         [] pat[k].kind = "s+" ->
              \E n \in 1..(Len(s) - pos) :
                 /\ \A j \in 1..n : s[pos + j] \in SpaceChars
                 /\ MatchFrom(pat, k + 1, s, pos + n)
         [] OTHER ->
              /\ pos + Len(pat[k].lit) <= Len(s)
              /\ SubSeq(s, pos + 1, pos + Len(pat[k].lit)) = pat[k].lit
              /\ MatchFrom(pat, k + 1, s, pos + Len(pat[k].lit))

\* re.search(pattern, s) is not None
re_search(pat, s) == \E start \in 0..Len(s) : MatchFrom(pat, 1, s, start)

\* a plausible slip: the keyword is searched as a whole word
KeywordAsWord(keyword, s) == re_search(<<B, Lit(keyword), B>>, s)

\* `keyword in text_lower`
KeywordIn(keyword, s) == Contains(s, keyword)

\* `for keyword in CRISIS_KEYWORDS: if keyword in text_lower: return True`
RECURSIVE KeywordLoop(_, _)
KeywordLoop(i, s) ==
  IF i > Len(CRISIS_KEYWORDS) THEN FALSE
  ELSE IF KeywordIn(CRISIS_KEYWORDS[i], s) THEN TRUE
  ELSE KeywordLoop(i + 1, s)

\* `for phrase in CRISIS_PHRASES: if phrase in text_lower: return True`
RECURSIVE PhraseLoop(_, _)
PhraseLoop(i, s) ==
  IF i > Len(CRISIS_PHRASES) THEN FALSE
  ELSE IF Contains(s, CRISIS_PHRASES[i]) THEN TRUE
  ELSE PhraseLoop(i + 1, s)

\* a plausible slip: the regular expressions are never tried
PatternLoopSkipped(i, s) == FALSE

\* `for pattern in crisis_patterns: if re.search(pattern, text_lower): return True`
RECURSIVE PatternLoop(_, _)
PatternLoop(i, s) ==
  IF i > Len(crisis_patterns) THEN FALSE
  ELSE IF re_search(crisis_patterns[i], s) THEN TRUE
  ELSE PatternLoop(i + 1, s)

detect_crisis(text) ==
  LET text_lower == lower(text) IN
    IF KeywordLoop(1, text_lower) THEN TRUE
    ELSE IF PhraseLoop(1, text_lower) THEN TRUE
    ELSE IF PatternLoop(1, text_lower) THEN TRUE
    ELSE FALSE


-----------------------------------------------------------------------------
(* The inputs of the pure-function specification of detect_crisis          *)

MaxSpaces == 2

Spaces(n) == [i \in 1..n |-> " "]

\* the runs of white space put between the words of an input
Seps == {Spaces(n) : n \in 1..MaxSpaces} \cup {<<"\t">>}

Stems ==
  { << <<"w","a","n","t">>, <<"t","o">>, <<"d","i","e">> >>,
    << <<"k","i","l","l">>, <<"m","y","s","e","l","f">> >>,
    << <<"c","o","m","m","i","t">>, <<"s","u","i","c","i","d","e">> >>,
    << <<"e","n","d">>, <<"m","y">>, <<"l","i","f","e">> >>,
    << <<"g","r","e","a","t">>, <<"d","a","y">> >> }

RECURSIVE Join(_, _)
Join(words, sep) ==
  IF Len(words) = 0 THEN <<>>
  ELSE IF Len(words) = 1 THEN words[1]
  ELSE words[1] \o sep \o Join(Tail(words), sep)

\* what precedes the words: nothing, the word "i", or a letter glued to them
Prefixes(sep) == {<<>>, <<"i">> \o sep, <<"s">>}
\* what follows the words: nothing, a letter glued to them, or another word
Suffixes(sep) == {<<>>, <<"t">>, sep \o <<"n","o","w">>}

CaseModes == {"lower", "upper", "title"}

ToUpper(text) == [i \in 1..Len(text) |-> UpperChar(text[i])]

ApplyCase(mode, text) ==
  CASE mode = "upper" -> ToUpper(text)
    [] mode = "title" ->
         [i \in 1..Len(text) |-> IF i = 1 THEN UpperChar(text[i]) ELSE text[i]]
    [] OTHER -> text

\* "I want to diet"
IWantToDiet == <<"I"," ","w","a","n","t"," ","t","o"," ","d","i","e","t">>
\* "KILL MYSELF"
KillMyselfUpper == <<"K","I","L","L"," ","M","Y","S","E","L","F">>
\* "I want to die and can't go on anymore"
CantGoOn ==
  <<"I"," ","w","a","n","t"," ","t","o"," ","d","i","e"," ","a","n","d"," ",
    "c","a","n","'","t"," ","g","o"," ","o","n"," ","a","n","y","m","o","r","e">>
\* "I had a great day at the park"
GreatDay ==
  <<"I"," ","h","a","d"," ","a"," ","g","r","e","a","t"," ","d","a","y"," ",
    "a","t"," ","t","h","e"," ","p","a","r","k">>
\* "I feel hopeless and want to end it all"
FeelHopeless ==
  <<"I"," ","f","e","e","l"," ","h","o","p","e","l","e","s","s"," ","a","n","d"," ",
    "w","a","n","t"," ","t","o"," ","e","n","d"," ","i","t"," ","a","l","l">>

ExampleTexts == {<<>>, IWantToDiet, KillMyselfUpper, CantGoOn, GreatDay, FeelHopeless}

InputTexts ==
  ExampleTexts \cup
  { ApplyCase(c, p \o Join(st, sep) \o sf) :
      c \in CaseModes, st \in Stems, sep \in Seps,
      p \in UNION {Prefixes(x) : x \in Seps},
      sf \in UNION {Suffixes(x) : x \in Seps} }

-----------------------------------------------------------------------------
(* Static data of the source                                               *)

MENTAL_HEALTH_RESOURCES ==
  [ crisis |->
      << [name |-> "National Suicide Prevention Lifeline", phone |-> "988",
          description |-> "24/7 crisis support and suicide prevention"],
         [name |-> "Crisis Text Line", phone |-> "Text HOME to 741741",
          description |-> "24/7 crisis support via text"],
         [name |-> "International Association for Suicide Prevention",
          website |-> "https://www.iasp.info/resources/Crisis_Centres/",
          description |-> "Global crisis centers directory"] >>,
    general |->
      << [name |-> "Mental Health America",
          website |-> "https://www.mhanational.org/finding-help",
          description |-> "Mental health resources and support"],
         [name |-> "NAMI (National Alliance on Mental Illness)",
          website |-> "https://www.nami.org/help",
          description |-> "Mental health education and support"],
         [name |-> "Psychology Today Therapist Finder",
          website |-> "https://www.psychologytoday.com/us/therapists",
          description |-> "Find therapists and mental health professionals"] >>,
    coping_strategies |->
      << [name |-> "Box Breathing", category |-> "anxiety",
          description |-> "Breathe in for 4, hold for 4, out for 4, hold for 4. Repeat 4 times."],
         [name |-> "5-4-3-2-1 Grounding", category |-> "anxiety",
          description |-> "Name 5 things you see, 4 you can touch, 3 you hear, 2 you smell, 1 you taste."],
         [name |-> "Progressive Muscle Relaxation", category |-> "stress",
          description |-> "Tense and relax each muscle group from toes to head."],
         [name |-> "Thought Reframing", category |-> "depression",
          description |-> "Challenge negative thoughts by asking: Is this realistic? What would I tell a friend?"] >> ]

\* the system prompt of generate_ai_response, one piece per paragraph
SYSTEM_PROMPT ==
  << "You are a compassionate mental health support chatbot. Your role is to:",
     "\n\n1. Provide empathetic, supportive responses\n2. Encourage users to seek professional help when appropriate\n3. Never provide medical diagnoses or specific medical advice\n4. Offer coping strategies and emotional support\n5. Be mindful of crisis situations and respond appropriately",
     "\n\nIMPORTANT SAFETY RULES:\n- Always include disclaimers about not being a replacement for professional help\n- For any crisis situations, provide immediate support resources\n- Focus on validation, empathy, and gentle guidance\n- Use warm, supportive language\n- Keep responses concise but meaningful (2-3 sentences typically)",
     "\n\nRemember: You are NOT a licensed therapist. You provide peer support and encourage professional help." >>

CRISIS_CLAUSE ==
  << "\n\nIMPORTANT: The user may be in crisis. Prioritize immediate safety and provide crisis resources. Be extra supportive and encourage immediate professional help." >>

\* `if crisis_detected: system_prompt += ...`
system_prompt(crisis_detected) ==
  IF crisis_detected THEN SYSTEM_PROMPT \o CRISIS_CLAUSE ELSE SYSTEM_PROMPT

\* the two replies of the except branch of generate_ai_response; the crisis
\* one is cut at the two numbers it names
CRISIS_FALLBACK ==
  << "I'm here to listen and support you. Please reach out to a crisis helpline immediately if you're having thoughts of self-harm. You can call ",
     "988",
     " (Suicide Prevention Lifeline) or text HOME to ",
     "741741",
     ". Your life has value and there are people who want to help." >>

GENERIC_FALLBACK ==
  << "I'm here to support you, though I'm having trouble generating a response right now. Remember that it's always okay to reach out to a mental health professional if you need additional support." >>

\* a plausible slip: one reply for every failure
fallback_always_generic(crisis_detected) == GENERIC_FALLBACK

\* `if crisis_detected: return <crisis reply>` / `return <generic reply>`
fallback_reply(crisis_detected) ==
  IF crisis_detected THEN CRISIS_FALLBACK ELSE GENERIC_FALLBACK

\* str.strip()
RECURSIVE lstrip(_)
lstrip(s) ==
  IF Len(s) > 0 /\ s[1] \in SpaceChars THEN lstrip(Tail(s)) ELSE s

RECURSIVE rstrip(_)
rstrip(s) ==
  IF Len(s) > 0 /\ s[Len(s)] \in SpaceChars
    THEN rstrip(SubSeq(s, 1, Len(s) - 1)) ELSE s

strip(s) == rstrip(lstrip(s))

-----------------------------------------------------------------------------
(* analyze_sentiment.  The VADER analyzer is a library: its compound score *)
(* is tabulated, in ten-thousandths, for the messages of this model.       *)

\* "good day"
GoodDay == <<"g","o","o","d"," ","d","a","y">>

\* the messages a /chat request of this model carries
ChatTexts == {KillMyselfUpper, GoodDay}

\* sentiment_analyzer.polarity_scores(text)['compound']
polarity_compound(text) ==
  CASE text = KillMyselfUpper -> -6908
    [] text = GoodDay -> 4404
    [] OTHER -> 0

analyze_sentiment(text) ==
  LET compound == polarity_compound(text) IN
    [ compound |-> compound,
      label |-> IF compound >= 500 THEN "positive"
                ELSE IF compound <= -500 THEN "negative"
                ELSE "neutral",
      emotional_state |->
                IF compound <= -5000 THEN "very_negative"
                ELSE IF compound <= -2000 THEN "negative"
                ELSE IF compound >= 5000 THEN "very_positive"
                ELSE IF compound >= 2000 THEN "positive"
                ELSE "neutral" ]

-----------------------------------------------------------------------------
(* The documents and the store operations the handlers use                 *)

UserSession(id, now) ==
  [id |-> id, nickname |-> None, created_at |-> now, last_activity |-> now]

\* a plausible slip: crisis_detected is not passed and keeps its default
ChatMessage_unflagged(id, session_id, content, is_user, now, score, label, crisis) ==
  [ id |-> id, session_id |-> session_id, content |-> content,
    is_user |-> is_user, timestamp |-> now,
    sentiment_score |-> score, sentiment_label |-> label,
    crisis_detected |-> FALSE ]

ChatMessage(id, session_id, content, is_user, now, score, label, crisis) ==
  [ id |-> id, session_id |-> session_id, content |-> content,
    is_user |-> is_user, timestamp |-> now,
    sentiment_score |-> score, sentiment_label |-> label,
    crisis_detected |-> crisis ]

\* a plausible slip: the document never reaches the collection
insert_lost(collection, doc) == collection

\* collection.insert_one(doc)
insert_one(collection, doc) == collection \cup {doc}

\* cursor.sort("timestamp", -1)
RECURSIVE sort_desc(_)
sort_desc(docs) ==
  IF docs = {} THEN <<>>
  ELSE LET newest == CHOOSE m \in docs : \A o \in docs : o.timestamp <= m.timestamp
       IN <<newest>> \o sort_desc(docs \ {newest})

HISTORY_LIMIT == 6

\* a plausible slip: the cursor is not limited
unlimited(docs, n) == docs

\* cursor.limit(n)
limit(docs, n) == SubSeq(docs, 1, IF Len(docs) < n THEN Len(docs) ELSE n)

\* db.messages.find({"session_id": sid}).sort("timestamp", -1).limit(6)
find_recent(msgs, sid) ==
  limit(sort_desc({m \in msgs : m.session_id = sid}), HISTORY_LIMIT)

\* a plausible slip: the history is used in the order the store returned it
reversed_omitted(seq) == seq

\* reversed(recent_messages)
reversed(seq) == [i \in 1..Len(seq) |-> seq[Len(seq) + 1 - i]]

\* a plausible slip: the history is dropped from the context
context_without_history(recent, message, crisis_detected) ==
  << [role |-> "system", content |-> system_prompt(crisis_detected)],
     [role |-> "user", content |-> message] >>

\* a plausible slip: the system prompt is built and never appended
context_without_system(recent, message, crisis_detected) ==
  [i \in 1..Len(recent) |->
     [role |-> IF reversed(recent)[i].is_user THEN "user" ELSE "assistant",
      content |-> reversed(recent)[i].content]]
  \o << [role |-> "user", content |-> message] >>

\* context_messages of generate_ai_response
build_context(recent, message, crisis_detected) ==
  << [role |-> "system", content |-> system_prompt(crisis_detected)] >>
  \o [i \in 1..Len(recent) |->
        [role |-> IF reversed(recent)[i].is_user THEN "user" ELSE "assistant",
         content |-> reversed(recent)[i].content]]
  \o << [role |-> "user", content |-> message] >>

\* a plausible slip: the crisis contacts go out with every reply
resources_always(crisis_detected) == Some(MENTAL_HEALTH_RESOURCES.crisis)

\* `if crisis_detected: response.resources = MENTAL_HEALTH_RESOURCES["crisis"]`
response_resources(crisis_detected) ==
  IF crisis_detected THEN Some(MENTAL_HEALTH_RESOURCES.crisis) ELSE None

ChatResponse(message, session_id, crisis_detected, sentiment) ==
  [ message |-> message, session_id |-> session_id,
    crisis_detected |-> crisis_detected, sentiment |-> Some(sentiment),
    resources |-> response_resources(crisis_detected) ]

\* what the caller of /chat gets: the model's 200 with a body, or the 500 of
\* `raise HTTPException(status_code=500, detail="Internal server error")`
Ok200(body) == [status |-> 200, detail |-> "", body |-> Some(body)]
Error500    == [status |-> 500, detail |-> "Internal server error", body |-> None]

-----------------------------------------------------------------------------
(* The state at start-up and the requests of the model                     *)

MaxPriorTurns == 2

Turns == {"t1", "t2"}

\* the session the store holds at start-up
KnownSession == "s1"
\* the session ids a /chat request of this model names
RequestSessionIds == {KnownSession}

\* str(uuid.uuid4()) of the UserSession a /chat request without session creates
NewSessionId(t) == IF t = "t1" THEN "n1" ELSE "n2"

\* " It sounds hard. ": what the generation service answers
ServiceReply ==
  <<" ","I","t"," ","s","o","u","n","d","s"," ","h","a","r","d","."," ">>
GenReplies == {ServiceReply}

\* the store after n earlier turns of KnownSession, each a user message and
\* its reply, written at the instants 1..2n
PriorMessages(n) ==
  UNION { { ChatMessage(2 * k - 1, KnownSession, GoodDay, TRUE, 2 * k - 1,
                        Some(analyze_sentiment(GoodDay).compound),
                        Some(analyze_sentiment(GoodDay).label),
                        detect_crisis(GoodDay)),
            ChatMessage(2 * k, KnownSession, strip(ServiceReply), FALSE, 2 * k,
                        None, None, FALSE) } : k \in 1..n }

\* startup_cleanup has returned: the handlers serve requests
SweepDone == [pc |-> "done", old_session_ids |-> {}]

IdleTurn ==
  [ pc |-> "idle", session_id |-> None, message |-> <<>>, sentiment |-> None,
    crisis_detected |-> FALSE, user_message_id |-> None,
    recent |-> <<>>, context |-> <<>>,
    gen_calls |-> 0, gen_failed |-> FALSE,
    ai_response |-> None, response |-> None ]

Init ==
  /\ text_in = <<>>
  /\ crisis_out = None
  /\ \E n \in 0..MaxPriorTurns :
       /\ messages = PriorMessages(n)
       /\ sessions = {[UserSession(KnownSession, 0) EXCEPT !.last_activity = 2 * n]}
       /\ clock = 2 * n
  /\ mood_entries = {[id |-> 0, session_id |-> KnownSession, mood_score |-> 3,
                      note |-> None, timestamp |-> 0]}
  /\ turn = [t \in Turns |-> IdleTurn]
  /\ del = [pc |-> "idle", session_id |-> None]
  /\ removed = {}
  /\ trend_out = None
  /\ sweep = SweepDone
  /\ fetch = None

-----------------------------------------------------------------------------
(* POST /chat                                                              *)

\* the handler leaves through `except Exception: raise HTTPException(500)`
Failed500 == [IdleTurn EXCEPT !.pc = "error", !.response = Some(Error500)]

\* a request without session_id: `await db.sessions.insert_one(session_dict)`
ChatCreateSession(t) ==
  /\ turn[t].pc = "idle"
  /\ \E msg \in ChatTexts :
       turn' = [turn EXCEPT ![t] =
                  [IdleTurn EXCEPT !.pc = "session_ready",
                                   !.session_id = Some(NewSessionId(t)),
                                   !.message = msg]]
  /\ sessions' = insert_one(sessions, UserSession(NewSessionId(t), clock))
  /\ UNCHANGED <<crisisVars, otherVars, messages, mood_entries, clock, del, removed>>

\* analyze_sentiment, detect_crisis and the insert of the user message
SaveUser(t, sid, msg) ==
  LET sentiment == analyze_sentiment(msg)
      crisis    == detect_crisis(msg)
      now       == clock + 1
  IN /\ clock' = now
     /\ messages' = insert_one(messages,
                      ChatMessage(now, sid, msg, TRUE, now,
                                  Some(sentiment.compound), Some(sentiment.label),
                                  crisis))
     /\ turn' = [turn EXCEPT ![t] =
                  [IdleTurn EXCEPT !.pc = "user_saved",
                                   !.session_id = Some(sid),
                                   !.message = msg,
                                   !.sentiment = Some(sentiment),
                                   !.crisis_detected = crisis,
                                   !.user_message_id = Some(now)]]

ChatSaveUser(t) ==
  /\ \/ /\ turn[t].pc = "idle"
        /\ \E sid \in RequestSessionIds, msg \in ChatTexts : SaveUser(t, sid, msg)
     \/ /\ turn[t].pc = "session_ready"
        /\ SaveUser(t, turn[t].session_id[1], turn[t].message)
  /\ UNCHANGED <<crisisVars, otherVars, sessions, mood_entries, del, removed>>

\* a store call of the handler itself raises
ChatStoreFailure(t) ==
  /\ turn[t].pc \in {"idle", "session_ready", "Succeeded", "FallbackUsed", "ai_saved"}
  /\ turn' = [turn EXCEPT ![t] = Failed500]
  /\ UNCHANGED <<crisisVars, otherVars, storeVars, clock, del, removed>>

\* client = openai.OpenAI(api_key=...): no timeout is passed, the client's
\* default request timeout applies
client_timeout_disabled == FALSE

client_has_timeout == TRUE

\* what an answer of the service makes client.chat.completions.create or
\* `.content.strip()` raise: an upstream error, a reply without content
Raised == {"APIError", "AttributeError"}

\* a plausible slip: `except openai.APIError`
except_api_error_only(e) == e = "APIError"

\* `except Exception as e` of generate_ai_response
except_Exception(e) == e \in {"APIError", "APITimeoutError", "AttributeError", "PyMongoError"}

\* a plausible slip: try again after a failure
retry_branch(tr) ==
  [tr EXCEPT !.pc = "user_saved", !.recent = <<>>, !.context = <<>>]

\* the except branch of generate_ai_response
except_branch(tr) ==
  [tr EXCEPT !.pc = "FallbackUsed",
             !.ai_response = Some(fallback_reply(tr.crisis_detected)),
             !.gen_failed = TRUE,
             !.recent = <<>>, !.context = <<>>]

\* an exception raised inside the try block of generate_ai_response
RaiseInGenerate(t, e) ==
  turn' = [turn EXCEPT ![t] =
             IF except_Exception(e) THEN except_branch(turn[t]) ELSE Failed500]

\* `await db.messages.find(...)`, the context and the call of the service
GenFetchAndCall(t) ==
  /\ turn[t].pc = "user_saved"
  /\ LET recent == find_recent(messages, turn[t].session_id[1]) IN
       turn' = [turn EXCEPT ![t] =
                  [turn[t] EXCEPT
                     !.pc = "Generating",
                     !.recent = recent,
                     !.context = build_context(recent, turn[t].message,
                                               turn[t].crisis_detected),
                     !.gen_calls = turn[t].gen_calls + 1]]
  /\ UNCHANGED <<crisisVars, otherVars, storeVars, clock, del, removed>>

\* `await db.messages.find(...)` raises
GenFetchFailure(t) ==
  /\ turn[t].pc = "user_saved"
  /\ RaiseInGenerate(t, "PyMongoError")
  /\ UNCHANGED <<crisisVars, otherVars, storeVars, clock, del, removed>>

\* the service answers: `return response.choices[0].message.content.strip()`
GenReturn(t) ==
  /\ turn[t].pc = "Generating"
  /\ \E reply \in GenReplies :
       turn' = [turn EXCEPT ![t] =
                  [turn[t] EXCEPT !.pc = "Succeeded",
                                  !.ai_response = Some(strip(reply)),
                                  !.recent = <<>>, !.context = <<>>]]
  /\ UNCHANGED <<crisisVars, otherVars, storeVars, clock, del, removed>>

\* the service answers with an error, or with a reply that has no content
GenRaise(t) ==
  /\ turn[t].pc = "Generating"
  /\ \E e \in Raised : RaiseInGenerate(t, e)
  /\ UNCHANGED <<crisisVars, otherVars, storeVars, clock, del, removed>>

\* the service has not answered when the client's request timeout expires
GenTimeout(t) ==
  /\ turn[t].pc = "Generating"
  /\ client_has_timeout
  /\ RaiseInGenerate(t, "APITimeoutError")
  /\ UNCHANGED <<crisisVars, otherVars, storeVars, clock, del, removed>>

\* the insert of the reply
ChatSaveAi(t) ==
  /\ turn[t].pc \in {"Succeeded", "FallbackUsed"}
  /\ clock' = clock + 1
  /\ messages' = insert_one(messages,
                   ChatMessage(clock + 1, turn[t].session_id[1],
                               turn[t].ai_response[1], FALSE, clock + 1,
                               None, None, FALSE))
  /\ turn' = [turn EXCEPT ![t].pc = "ai_saved"]
  /\ UNCHANGED <<crisisVars, otherVars, sessions, mood_entries, del, removed>>

\* db.sessions.update_one({"id": sid}, {"$set": {"last_activity": now}})
update_last_activity(docs, sid, now) ==
  {IF s.id = sid THEN [s EXCEPT !.last_activity = now] ELSE s : s \in docs}

\* the update of the session and the response
ChatFinish(t) ==
  /\ turn[t].pc = "ai_saved"
  /\ sessions' = update_last_activity(sessions, turn[t].session_id[1], clock)
  /\ turn' = [turn EXCEPT ![t] =
                [turn[t] EXCEPT
                   !.pc = "done",
                   !.response = Some(Ok200(ChatResponse(turn[t].ai_response[1],
                                                        turn[t].session_id[1],
                                                        turn[t].crisis_detected,
                                                        turn[t].sentiment[1])))]]
  /\ UNCHANGED <<crisisVars, otherVars, messages, mood_entries, clock, del, removed>>

-----------------------------------------------------------------------------
(* DELETE /session/{session_id}/data                                       *)

\* a plausible slip: the filter of the delete is left empty
delete_many_unfiltered(docs, sid) == {}

\* collection.delete_many({"session_id": sid})
delete_many(docs, sid) == {d \in docs : d.session_id # sid}

\* db.messages.delete_many({"session_id": session_id})
DeleteMessages ==
  /\ del.pc = "idle"
  /\ \E sid \in {KnownSession} :
       /\ del' = [pc |-> "messages_deleted", session_id |-> Some(sid)]
       /\ messages' = delete_many(messages, sid)
       /\ removed' = removed \cup {m.id : m \in {x \in messages : x.session_id = sid}}
  /\ UNCHANGED <<crisisVars, otherVars, sessions, mood_entries, clock, turn>>

\* db.mood_entries.delete_many({"session_id": session_id})
DeleteMoodEntries ==
  /\ del.pc = "messages_deleted"
  /\ del' = [del EXCEPT !.pc = "moods_deleted"]
  /\ mood_entries' = delete_many(mood_entries, del.session_id[1])
  /\ UNCHANGED <<crisisVars, otherVars, sessions, messages, clock, turn, removed>>

\* db.sessions.delete_one({"id": session_id})
DeleteSession ==
  /\ del.pc = "moods_deleted"
  /\ del' = [del EXCEPT !.pc = "done"]
  /\ sessions' = {s \in sessions : s.id # del.session_id[1]}
  /\ UNCHANGED <<crisisVars, otherVars, messages, mood_entries, clock, turn, removed>>

\* a store call of delete_user_data raises:
\* `raise HTTPException(status_code=500, detail="Error deleting user data")`
DeleteStoreFailure ==
  /\ del.pc \in {"idle", "messages_deleted", "moods_deleted"}
  /\ del' = [pc |-> "error",
             session_id |-> IF del.pc = "idle" THEN Some(KnownSession)
                                               ELSE del.session_id]
  /\ UNCHANGED <<crisisVars, otherVars, storeVars, clock, turn, removed>>

-----------------------------------------------------------------------------
Next ==
  \/ \E t \in Turns : ChatCreateSession(t)
  \/ \E t \in Turns : ChatSaveUser(t)
  \/ \E t \in Turns : ChatStoreFailure(t)
  \/ \E t \in Turns : GenFetchAndCall(t)
  \/ \E t \in Turns : GenFetchFailure(t)
  \/ \E t \in Turns : GenReturn(t)
  \/ \E t \in Turns : GenRaise(t)
  \/ \E t \in Turns : GenTimeout(t)
  \/ \E t \in Turns : ChatSaveAi(t)
  \/ \E t \in Turns : ChatFinish(t)
  \/ DeleteMessages
  \/ DeleteMoodEntries
  \/ DeleteSession

Spec == Init /\ [][Next]_vars

-----------------------------------------------------------------------------
(* detect_crisis applied to one text                                       *)

CrisisInit ==
  /\ text_in \in InputTexts
  /\ crisis_out = None
  /\ messages = {}
  /\ sessions = {}
  /\ mood_entries = {}
  /\ clock = 0
  /\ turn = [t \in Turns |-> IdleTurn]
  /\ del = [pc |-> "idle", session_id |-> None]
  /\ removed = {}
  /\ trend_out = None
  /\ sweep = SweepDone
  /\ fetch = None

DetectCrisis ==
  /\ crisis_out = None
  /\ crisis_out' = Some(detect_crisis(text_in))
  /\ UNCHANGED <<text_in, storeVars, chatVars, otherVars>>

CrisisNext == DetectCrisis

CrisisSpec == CrisisInit /\ [][CrisisNext]_vars

-----------------------------------------------------------------------------
(* One /chat request and the delete request, under the scheduling the      *)
(* liveness claim rests on: the client's request timeout fires when the    *)
(* service has not answered.  Whether the service answers, and whether a   *)
(* store call fails, is left open.                                         *)

LiveTurns == {"t1"}

LiveNext ==
  \/ \E t \in LiveTurns : ChatCreateSession(t)
  \/ \E t \in LiveTurns : ChatSaveUser(t)
  \/ \E t \in LiveTurns : ChatStoreFailure(t)
  \/ \E t \in LiveTurns : GenFetchAndCall(t)
  \/ \E t \in LiveTurns : GenFetchFailure(t)
  \/ \E t \in LiveTurns : GenReturn(t)
  \/ \E t \in LiveTurns : GenRaise(t)
  \/ \E t \in LiveTurns : GenTimeout(t)
  \/ \E t \in LiveTurns : ChatSaveAi(t)
  \/ \E t \in LiveTurns : ChatFinish(t)
  \/ DeleteMessages
  \/ DeleteMoodEntries
  \/ DeleteSession

LiveSpec ==
  Init /\ [][LiveNext]_vars /\ \A t \in LiveTurns : WF_vars(GenTimeout(t))

-----------------------------------------------------------------------------
(* GET /sentiment/{session_id}/trends.  A timestamp counts ticks, of which *)
(* TicksPerDay make a calendar day.  The quotient of two numbers is kept   *)
(* as the pair of its dividend and its divisor.                            *)

TicksPerDay  == 2
MaxTrendMsgs == 4
MaxTrendDays == 2

\* a second session of the store
OtherSession == "s2"

\* timedelta(days=days)
timedelta(days) == days * TicksPerDay

\* a plausible slip: the messages are grouped by their whole timestamp
timestamp_key(timestamp) == timestamp

\* datetime.fromisoformat(msg['timestamp']).date().isoformat()
date_key(timestamp) == timestamp \div TicksPerDay

\* cursor.sort("timestamp", 1)
RECURSIVE sort_asc(_)
sort_asc(docs) ==
  IF docs = {} THEN <<>>
  ELSE LET oldest == CHOOSE m \in docs : \A o \in docs : m.timestamp <= o.timestamp
       IN <<oldest>> \o sort_asc(docs \ {oldest})

\* db.messages.find({"session_id": ..., "is_user": True,
\*   "sentiment_score": {"$ne": None}, "timestamp": {"$gte": ...}}).sort(...)
find_scored(msgs, sid, start_date) ==
  sort_asc({m \in msgs : /\ m.session_id = sid
                         /\ m.is_user = TRUE
                         /\ m.sentiment_score # None
                         /\ m.timestamp >= start_date})

\* daily_sentiments[date_key].append(score), the dict kept in insertion order
append_score(daily, key, score) ==
  IF \E i \in 1..Len(daily) : daily[i].date = key
    THEN [i \in 1..Len(daily) |->
            IF daily[i].date = key
              THEN [daily[i] EXCEPT !.scores = Append(@, score)]
              ELSE daily[i]]
    ELSE Append(daily, [date |-> key, scores |-> <<score>>])

\* `for msg in messages: ...`
RECURSIVE daily_sentiments(_, _)
daily_sentiments(found, daily) ==
  IF found = <<>> THEN daily
  ELSE daily_sentiments(Tail(found),
         append_score(daily, date_key(Head(found).timestamp),
                      Head(found).sentiment_score[1]))

RECURSIVE sum(_)
sum(scores) == IF scores = <<>> THEN 0 ELSE Head(scores) + sum(Tail(scores))

\* a / b
quotient(a, b) == [num |-> a, den |-> b]

\* one element of trends
trend_entry(entry) ==
  [ date |-> entry.date,
    avg_sentiment |-> quotient(sum(entry.scores), Len(entry.scores)),
    message_count |-> Len(entry.scores) ]

\* the body get_sentiment_trends returns at the time now
get_sentiment_trends(msgs, sid, days, now) ==
  LET found == find_scored(msgs, sid, now - timedelta(days)) IN
    IF found = <<>>
      THEN [ trends |-> <<>>,
             summary |-> [avg_sentiment |-> quotient(0, 1), total_messages |-> 0,
                          days_analyzed |-> None] ]
      ELSE LET daily == daily_sentiments(found, <<>>)
               all_scores == [i \in 1..Len(found) |-> found[i].sentiment_score[1]]
           IN [ trends |-> [i \in 1..Len(daily) |-> trend_entry(daily[i])],
                summary |-> [avg_sentiment |-> quotient(sum(all_scores), Len(all_scores)),
                             total_messages |-> Len(found),
                             days_analyzed |-> Some(days)] ]

\* a user message as chat stores it, and a reply
StoredUserMessage(id, sid, text, now) ==
  ChatMessage(id, sid, text, TRUE, now,
              Some(analyze_sentiment(text).compound),
              Some(analyze_sentiment(text).label), detect_crisis(text))
StoredReply(id, sid, now) ==
  ChatMessage(id, sid, strip(ServiceReply), FALSE, now, None, None, FALSE)

\* what the store holds of the instant ts
TrendKinds == {"none", "calm", "crisis", "reply", "other"}
TrendMessage(ts, kind) ==
  CASE kind = "calm"   -> StoredUserMessage(ts, KnownSession, GoodDay, ts)
    [] kind = "crisis" -> StoredUserMessage(ts, KnownSession, KillMyselfUpper, ts)
    [] kind = "reply"  -> StoredReply(ts, KnownSession, ts)
    [] OTHER           -> StoredUserMessage(ts, OtherSession, GoodDay, ts)

TrendStores ==
  { {TrendMessage(ts, k[ts]) : ts \in {i \in 1..MaxTrendMsgs : k[i] # "none"}} :
      k \in [1..MaxTrendMsgs -> TrendKinds] }

TrendInit ==
  /\ text_in = <<>>
  /\ crisis_out = None
  /\ messages \in TrendStores
  /\ sessions = {UserSession(KnownSession, 0), UserSession(OtherSession, 0)}
  /\ mood_entries = {}
  /\ clock = MaxTrendMsgs
  /\ turn = [t \in Turns |-> IdleTurn]
  /\ del = [pc |-> "idle", session_id |-> None]
  /\ removed = {}
  /\ trend_out = None
  /\ sweep = SweepDone
  /\ fetch = None

GetSentimentTrends ==
  /\ trend_out = None
  /\ \E sid \in {KnownSession, OtherSession}, days \in 1..MaxTrendDays :
       trend_out' = Some([session_id |-> sid, days |-> days,
                          body |-> get_sentiment_trends(messages, sid, days, clock)])
  /\ UNCHANGED <<crisisVars, storeVars, chatVars, sweep, fetch>>

TrendNext == GetSentimentTrends

TrendSpec == TrendInit /\ [][TrendNext]_vars

-----------------------------------------------------------------------------
(* The stores a process can find at start-up: KnownSession and             *)
(* OtherSession, each absent or last active just before, at, or just after *)
(* the cutoff of startup_cleanup, with the messages and the mood entry     *)
(* that were stored under its id.                                          *)

MaxStored == 2

RETENTION_DAYS == 30

\* the instant the process starts at
StartupTime == timedelta(RETENTION_DAYS) + TicksPerDay

\* cutoff_date = datetime.now(timezone.utc) - timedelta(days=30)
cutoff_date(now) == now - timedelta(RETENTION_DAYS)

StoredSessionIds == <<KnownSession, OtherSession>>

SessionAges == {"absent", "stale", "at_cutoff", "fresh"}

StoredSession(id, age) ==
  [UserSession(id, 0) EXCEPT
     !.last_activity = CASE age = "stale" -> cutoff_date(StartupTime) - 1
                         [] age = "fresh" -> cutoff_date(StartupTime) + 1
                         [] OTHER -> cutoff_date(StartupTime)]

\* the first n messages of the k-th session: user messages and replies in turn
StoredMessages(k, n) ==
  { IF j % 2 = 1
      THEN StoredUserMessage((k - 1) * MaxStored + j, StoredSessionIds[k], GoodDay,
                             (k - 1) * MaxStored + j)
      ELSE StoredReply((k - 1) * MaxStored + j, StoredSessionIds[k],
                       (k - 1) * MaxStored + j) : j \in 1..n }

\* MoodEntry(session_id=..., mood_score=..., note=...)
MoodEntry(id, session_id, mood_score, now) ==
  [id |-> id, session_id |-> session_id, mood_score |-> mood_score,
   note |-> None, timestamp |-> now]

StoredInit ==
  /\ text_in = <<>>
  /\ crisis_out = None
  /\ \E age \in [1..2 -> SessionAges], n \in [1..2 -> 0..MaxStored],
        mood \in [1..2 -> BOOLEAN] :
       /\ sessions = {StoredSession(StoredSessionIds[k], age[k]) :
                        k \in {i \in 1..2 : age[i] # "absent"}}
       /\ messages = StoredMessages(1, n[1]) \cup StoredMessages(2, n[2])
       /\ mood_entries = {MoodEntry(2 * MaxStored + k, StoredSessionIds[k], 3, k) :
                            k \in {i \in 1..2 : mood[i]}}
  /\ clock = StartupTime
  /\ turn = [t \in Turns |-> IdleTurn]
  /\ del = [pc |-> "idle", session_id |-> None]
  /\ removed = {}
  /\ trend_out = None
  /\ fetch = None

-----------------------------------------------------------------------------
(* delete_user_data with no other request in flight                        *)

DeleteInit == StoredInit /\ sweep = SweepDone

DeleteNext ==
  \/ DeleteMessages
  \/ DeleteMoodEntries
  \/ DeleteSession
  \/ DeleteStoreFailure

DeleteSpec == DeleteInit /\ [][DeleteNext]_vars

-----------------------------------------------------------------------------
(* startup_cleanup, which runs before the first request is served          *)

\* a plausible slip: a session last active exactly at the cutoff is old too
is_old_inclusive(session, cutoff_iso) == session.last_activity <= cutoff_iso

\* {"last_activity": {"$lt": cutoff_iso}}
is_old(session, cutoff_iso) == session.last_activity < cutoff_iso

\* collection.delete_many({"session_id": {"$in": ids}})
delete_many_in(docs, ids) == {d \in docs : d.session_id \notin ids}

SweepInit == StoredInit /\ sweep = [pc |-> "start", old_session_ids |-> {}]

\* `old_sessions = await db.sessions.find(...)` and `if old_session_ids:`
SweepFind ==
  /\ sweep.pc = "start"
  /\ LET old_sessions    == {x \in sessions : is_old(x, cutoff_date(clock))}
         old_session_ids == {x.id : x \in old_sessions}
     IN sweep' = [pc |-> IF old_session_ids # {} THEN "found" ELSE "done",
                  old_session_ids |-> old_session_ids]
  /\ UNCHANGED <<crisisVars, storeVars, chatVars, trend_out, fetch>>

\* db.messages.delete_many({"session_id": {"$in": old_session_ids}})
SweepDeleteMessages ==
  /\ sweep.pc = "found"
  /\ sweep' = [sweep EXCEPT !.pc = "messages_deleted"]
  /\ messages' = delete_many_in(messages, sweep.old_session_ids)
  /\ removed' = removed \cup
                  {m.id : m \in {x \in messages : x.session_id \in sweep.old_session_ids}}
  /\ UNCHANGED <<crisisVars, sessions, mood_entries, clock, turn, del,
                 trend_out, fetch>>

\* db.mood_entries.delete_many({"session_id": {"$in": old_session_ids}})
SweepDeleteMoodEntries ==
  /\ sweep.pc = "messages_deleted"
  /\ sweep' = [sweep EXCEPT !.pc = "moods_deleted"]
  /\ mood_entries' = delete_many_in(mood_entries, sweep.old_session_ids)
  /\ UNCHANGED <<crisisVars, sessions, messages, chatVars, trend_out, fetch>>

\* db.sessions.delete_many({"id": {"$in": old_session_ids}})
SweepDeleteSessions ==
  /\ sweep.pc = "moods_deleted"
  /\ sweep' = [sweep EXCEPT !.pc = "done"]
  /\ sessions' = {x \in sessions : x.id \notin sweep.old_session_ids}
  /\ UNCHANGED <<crisisVars, messages, mood_entries, chatVars, trend_out, fetch>>

\* a store call of the sweep raises: the error is logged and start-up goes on
SweepStoreFailure ==
  /\ sweep.pc \in {"start", "found", "messages_deleted", "moods_deleted"}
  /\ sweep' = [sweep EXCEPT !.pc = "failed"]
  /\ UNCHANGED <<crisisVars, storeVars, chatVars, trend_out, fetch>>

SweepNext ==
  \/ SweepFind
  \/ SweepDeleteMessages
  \/ SweepDeleteMoodEntries
  \/ SweepDeleteSessions
  \/ SweepStoreFailure

SweepSpec == SweepInit /\ [][SweepNext]_vars

-----------------------------------------------------------------------------
(* GET /session/{session_id} and POST /chat with a session id the store    *)
(* holds no session of                                                     *)

UnknownSession == "u1"

\* `raise HTTPException(status_code=404, detail="Session not found")`
Error404 == [status |-> 404, detail |-> "Session not found", body |-> None]

\* db.sessions.find_one({"id": session_id})
find_one(docs, id) ==
  IF \E x \in docs : x.id = id THEN Some(CHOOSE x \in docs : x.id = id) ELSE None

\* what get_session answers
get_session(docs, session_id) ==
  LET session == find_one(docs, session_id) IN
    IF session = None THEN Error404 ELSE Ok200(session[1])

GetSession ==
  /\ fetch = None
  /\ \E sid \in {KnownSession, UnknownSession} :
       fetch' = Some([session_id |-> sid, response |-> get_session(sessions, sid)])
  /\ UNCHANGED <<crisisVars, storeVars, chatVars, trend_out, sweep>>

\* a /chat request that names UnknownSession: `if not session_id` is false,
\* and the handler goes on to the insert of the user message
ChatSaveUserUnknown(t) ==
  /\ turn[t].pc = "idle"
  /\ \E msg \in ChatTexts : SaveUser(t, UnknownSession, msg)
  /\ UNCHANGED <<crisisVars, otherVars, sessions, mood_entries, del, removed>>

SessionNext ==
  \/ GetSession
  \/ \E t \in LiveTurns : ChatSaveUserUnknown(t)
  \/ \E t \in LiveTurns : ChatStoreFailure(t)
  \/ \E t \in LiveTurns : GenFetchAndCall(t)
  \/ \E t \in LiveTurns : GenFetchFailure(t)
  \/ \E t \in LiveTurns : GenReturn(t)
  \/ \E t \in LiveTurns : GenRaise(t)
  \/ \E t \in LiveTurns : GenTimeout(t)
  \/ \E t \in LiveTurns : ChatSaveAi(t)
  \/ \E t \in LiveTurns : ChatFinish(t)

SessionSpec == Init /\ [][SessionNext]_vars

-----------------------------------------------------------------------------
(* The claims about a chat turn                                            *)

\* detect_crisis of each message a request of the model carries
CrisisOf == [m \in ChatTexts |-> detect_crisis(m)]

\* the user message of turn t is a document of db.messages
UserMessageStored(t) ==
  \E m \in messages :
     /\ m.id = turn[t].user_message_id[1]
     /\ m.is_user
     /\ m.content = turn[t].message
     /\ m.session_id = turn[t].session_id[1]

\* C1: whenever the generation service has been called for a turn, the
\* user message of that turn was inserted before: it is in db.messages,
\* whether the call is pending, succeeded or failed, unless a delete request
\* for the session removed it since.
C1_UserMessageSavedBeforeGeneration ==
  \A t \in Turns :
     turn[t].gen_calls > 0 =>
        /\ turn[t].user_message_id # None
        /\ \/ UserMessageStored(t)
           \/ turn[t].user_message_id[1] \in removed

\* C1 witness: a generation call failed and the user message is stored
C1_Witness ==
  \E t \in Turns :
     /\ turn[t].pc = "FallbackUsed"
     /\ turn[t].gen_calls = 1
     /\ UserMessageStored(t)

\* C2: after a failure inside generate_ai_response the reply of the turn is
\* the crisis fallback, which names 988 and 741741, when crisis_detected,
\* and the generic fallback otherwise; it stays so up to the response.
C2_FallbackTextByCrisisFlag ==
  /\ "988" \in Range(CRISIS_FALLBACK)
  /\ "741741" \in Range(CRISIS_FALLBACK)
  /\ CRISIS_FALLBACK # GENERIC_FALLBACK
  /\ \A t \in Turns :
        turn[t].gen_failed =>
           /\ turn[t].crisis_detected = CrisisOf[turn[t].message]
           /\ turn[t].ai_response =
                Some(IF turn[t].crisis_detected THEN CRISIS_FALLBACK
                                                ELSE GENERIC_FALLBACK)
           /\ turn[t].pc = "done" =>
                turn[t].response[1].body[1].message = turn[t].ai_response[1]

\* C2 witness: a crisis turn whose generation call failed has answered with
\* the crisis fallback
C2_Witness ==
  \E t \in Turns :
     /\ turn[t].pc = "done"
     /\ turn[t].gen_calls = 1
     /\ turn[t].gen_failed
     /\ turn[t].crisis_detected
     /\ turn[t].response[1].body[1].message = CRISIS_FALLBACK

\* C3: a turn leaves Generating only for Succeeded or FallbackUsed, never
\* for the error response, and a turn whose generation failed and that then
\* completes answers 200 with a ChatResponse.
C3_GenerationFailureAbsorbed ==
  /\ [][\A t \in Turns :
          (turn[t].pc = "Generating" /\ turn'[t].pc # "Generating") =>
             /\ turn'[t].pc \in {"Succeeded", "FallbackUsed"}
             /\ turn'[t].pc = "FallbackUsed" =>
                  (turn'[t].gen_failed /\ turn'[t].ai_response # None)]_vars
  /\ [](\A t \in Turns :
          (turn[t].pc = "done" /\ turn[t].gen_failed) =>
             /\ turn[t].response[1].status = 200
             /\ turn[t].response[1].body # None)

\* C3 witness: a turn whose generation call failed has answered 200
C3_Witness ==
  \E t \in Turns :
     /\ turn[t].pc = "done"
     /\ turn[t].gen_calls = 1
     /\ turn[t].gen_failed
     /\ turn[t].response[1].status = 200

\* C4: the response of a completed turn carries resources if and only if
\* crisis_detected, which is detect_crisis of its message, and then they
\* are the crisis category of MENTAL_HEALTH_RESOURCES.
C4_ResourcesIffCrisis ==
  \A t \in Turns :
     turn[t].pc = "done" =>
        LET body == turn[t].response[1].body[1] IN
          /\ body.crisis_detected = CrisisOf[turn[t].message]
          /\ (body.resources # None) <=> body.crisis_detected
          /\ body.crisis_detected =>
               body.resources = Some(MENTAL_HEALTH_RESOURCES.crisis)

\* C4 witness: a crisis turn completed as Succeeded with resources and a
\* calm turn completed as FallbackUsed without
C4_Witness ==
  \E t, u \in Turns :
     /\ turn[t].pc = "done" /\ ~turn[t].gen_failed
     /\ turn[t].response[1].body[1].resources # None
     /\ turn[u].pc = "done" /\ turn[u].gen_failed
     /\ turn[u].response[1].body[1].resources = None

\* C5: a turn calls the generation service at most once; after a failure it
\* is in FallbackUsed with that one call, or with none when the fetch failed.
C5_AtMostOneGenerationCall ==
  \A t \in Turns :
     /\ turn[t].gen_calls <= 1
     /\ turn[t].gen_failed => turn[t].pc \in {"FallbackUsed", "ai_saved", "done"}

\* C5 witness: a turn completed after its one generation call failed
C5_Witness ==
  \E t \in Turns :
     /\ turn[t].pc = "done"
     /\ turn[t].gen_failed
     /\ turn[t].gen_calls = 1

C9_AtMostSevenEntries ==
  \A t \in Turns : Len(turn[t].context) <= 7

\* C9: the context handed to the generation service has the system prompt,
\* at most HISTORY_LIMIT history messages and the current message: never
\* more than HISTORY_LIMIT + 2 = 8 entries.
C9_AtMostEightEntries ==
  \A t \in Turns :
     /\ Len(turn[t].context) <= HISTORY_LIMIT + 2
     /\ turn[t].pc = "Generating" =>
          /\ Len(turn[t].recent) <= HISTORY_LIMIT
          /\ Len(turn[t].context) = Len(turn[t].recent) + 2

\* C9 witness: a context of 8 entries
C9_Witness ==
  \E t \in Turns :
     turn[t].pc = "Generating" /\ Len(turn[t].context) = HISTORY_LIMIT + 2

\* C10: when the find of generate_ai_response returned no message, the
\* context is the system prompt followed by the current user message.
C10_EmptyHistoryContext ==
  \A t \in Turns :
     (turn[t].pc = "Generating" /\ turn[t].recent = <<>>) =>
        turn[t].context =
          << [role |-> "system",
              content |-> IF turn[t].crisis_detected
                            THEN SYSTEM_PROMPT \o CRISIS_CLAUSE
                            ELSE SYSTEM_PROMPT],
             [role |-> "user", content |-> turn[t].message] >>

\* C10 witness: the find returned no message and the service was called
C10_Witness ==
  \E t \in Turns :
     /\ turn[t].pc = "Generating"
     /\ turn[t].recent = <<>>
     /\ Len(turn[t].context) = 2

\* the messages of session sid with fewer than HISTORY_LIMIT newer ones
NewestOf(msgs, sid) ==
  {m \in msgs :
     /\ m.session_id = sid
     /\ Cardinality({o \in msgs : o.session_id = sid /\ o.timestamp > m.timestamp})
          < HISTORY_LIMIT}

\* C11: the context built for the generation call starts with the system
\* prompt and ends with the current user message; between them are the
\* messages of the session the store held at the fetch that have fewer than
\* 6 newer ones, oldest first, each with role user or assistant by is_user.
C11_ContextChronological ==
  [][\A t \in Turns :
       (turn[t].pc = "user_saved" /\ turn'[t].pc = "Generating") =>
          LET newest == NewestOf(messages, turn[t].session_id[1])
              ctx    == turn'[t].context
          IN /\ Len(ctx) = Cardinality(newest) + 2
             /\ ctx[1].role = "system"
             /\ ctx[1].content = IF turn[t].crisis_detected
                                   THEN SYSTEM_PROMPT \o CRISIS_CLAUSE
                                   ELSE SYSTEM_PROMPT
             /\ ctx[Len(ctx)] = [role |-> "user", content |-> turn[t].message]
             /\ \A m \in newest :
                  LET older == Cardinality({o \in newest : o.timestamp < m.timestamp})
                  IN ctx[older + 2] =
                       [role |-> IF m.is_user THEN "user" ELSE "assistant",
                        content |-> m.content]]_vars

\* C11 witness: a context with 6 history entries of both roles, built from
\* a newest-first result of the store
C11_Witness ==
  \E t \in Turns :
     /\ turn[t].pc = "Generating"
     /\ Len(turn[t].recent) = HISTORY_LIMIT
     /\ turn[t].recent[1].timestamp > turn[t].recent[HISTORY_LIMIT].timestamp
     /\ \E i, j \in 2..(HISTORY_LIMIT + 1) :
          /\ turn[t].context[i].role = "user"
          /\ turn[t].context[j].role = "assistant"
          /\ turn[t].context[i].content # turn[t].context[j].content

-----------------------------------------------------------------------------
(* The claims about detect_crisis                                          *)

\* the text with its letters A..Z replaced by a..z
LowerCased(text) == [i \in 1..Len(text) |-> LowerChar(text[i])]

\* "want to die"
WantToDie == <<"w","a","n","t"," ","t","o"," ","d","i","e">>

\* some regular expression of detect_crisis matches s
SomePatternMatches(s) ==
  \E i \in 1..Len(crisis_patterns) : re_search(crisis_patterns[i], s)

\* s holds a keyword or a phrase as a substring, or a pattern matches it
FlaggedByLists(s) ==
  \/ \E i \in 1..Len(CRISIS_KEYWORDS) : Contains(s, CRISIS_KEYWORDS[i])
  \/ \E i \in 1..Len(CRISIS_PHRASES) : Contains(s, CRISIS_PHRASES[i])
  \/ SomePatternMatches(s)

\* C7 as claimed: detect_crisis("I want to diet") is false
C7_DietNotFlagged ==
  (text_in = IWantToDiet /\ crisis_out # None) => crisis_out = Some(FALSE)

\* C7: detect_crisis is true of every text that holds "want to die" in any
\* letter case, also as the prefix of a longer word, because the keyword
\* list is matched by substring: detect_crisis("I want to diet") is true.
\* Only the four regular expressions respect the word boundary after "die":
\* none of them matches "I want to diet".
C7_DietFlaggedByKeyword ==
  crisis_out # None =>
     /\ Contains(LowerCased(text_in), WantToDie) => crisis_out = Some(TRUE)
     /\ text_in = IWantToDiet =>
          /\ crisis_out = Some(TRUE)
          /\ ~SomePatternMatches(LowerCased(text_in))

\* C7 witness: detect_crisis has answered true for "I want to diet"
C7_Witness == text_in = IWantToDiet /\ crisis_out = Some(TRUE)

\* C8: detect_crisis is true exactly when the lower-cased text holds a
\* keyword or a phrase as a substring or matches one of the four patterns;
\* the all-upper-case and the all-lower-case form of the text get the same
\* answer; "KILL MYSELF" is a crisis and "I had a great day at the park"
\* is not.
C8_SubstringOrPatternAnyCase ==
  crisis_out # None =>
     /\ crisis_out[1] = FlaggedByLists(LowerCased(text_in))
     /\ detect_crisis(ToUpper(text_in)) = crisis_out[1]
     /\ detect_crisis(LowerCased(text_in)) = crisis_out[1]
     /\ text_in = KillMyselfUpper => crisis_out[1]
     /\ text_in = CantGoOn => crisis_out[1]
     /\ text_in = GreatDay => ~crisis_out[1]

\* C8 witness: detect_crisis has answered true for "KILL MYSELF"
C8_Witness == text_in = KillMyselfUpper /\ crisis_out = Some(TRUE)

-----------------------------------------------------------------------------
(* The claim about the trend aggregation                                   *)

\* the messages a trends request for sid over days is about
ScoredInput(sid, days) ==
  {m \in messages : /\ m.session_id = sid
                    /\ m.is_user
                    /\ m.timestamp >= clock - days * TicksPerDay}

\* the calendar day an instant falls in
DayOf(ts) == CHOOSE d \in 0..ts : d * TicksPerDay <= ts /\ ts < (d + 1) * TicksPerDay

RECURSIVE TotalScore(_)
TotalScore(msgs) ==
  IF msgs = {} THEN 0
  ELSE LET m == CHOOSE x \in msgs : TRUE
       IN m.sentiment_score[1] + TotalScore(msgs \ {m})

RECURSIVE TotalCount(_)
TotalCount(trends) ==
  IF trends = <<>> THEN 0 ELSE Head(trends).message_count + TotalCount(Tail(trends))

\* the quotient q is the arithmetic mean of the scores of msgs
IsMeanOf(q, msgs) ==
  /\ q.den > 0
  /\ q.num * Cardinality(msgs) = TotalScore(msgs) * q.den

\* C12: for a non-empty input the response has one bucket per calendar date
\* of the input, whose message_count is the number of input messages of that
\* date and whose avg_sentiment is the mean of their scores; the counts add
\* up to total_messages, which is the size of the input; for an empty input
\* there is no bucket, avg_sentiment is 0 and total_messages is 0.
C12_OneBucketPerDate ==
  trend_out # None =>
     LET input  == ScoredInput(trend_out[1].session_id, trend_out[1].days)
         body   == trend_out[1].body
         trends == body.trends
     IN IF input = {}
          THEN /\ trends = <<>>
               /\ body.summary.avg_sentiment.num = 0
               /\ body.summary.total_messages = 0
          ELSE /\ {trends[i].date : i \in 1..Len(trends)}
                    = {DayOf(m.timestamp) : m \in input}
               /\ Len(trends) = Cardinality({DayOf(m.timestamp) : m \in input})
               /\ \A i \in 1..Len(trends) :
                    LET ofDay == {m \in input : DayOf(m.timestamp) = trends[i].date}
                    IN /\ trends[i].message_count = Cardinality(ofDay)
                       /\ IsMeanOf(trends[i].avg_sentiment, ofDay)
               /\ TotalCount(trends) = body.summary.total_messages
               /\ body.summary.total_messages = Cardinality(input)

\* C12 witness: a response of two buckets, one of them the mean of two
\* different scores
C12_Witness ==
  /\ trend_out # None
  /\ Len(trend_out[1].body.trends) = 2
  /\ \E i \in 1..2 :
       /\ trend_out[1].body.trends[i].message_count = 2
       /\ trend_out[1].body.trends[i].avg_sentiment = quotient(4404 - 6908, 2)

-----------------------------------------------------------------------------
(* The claims about delete_user_data and startup_cleanup                   *)

\* what the store holds under the ids of ids, and under all other ids
RecordsOf(ids) ==
  [ sessions     |-> {x \in sessions : x.id \in ids},
    messages     |-> {m \in messages : m.session_id \in ids},
    mood_entries |-> {e \in mood_entries : e.session_id \in ids} ]

RecordsNotOf(ids) ==
  [ sessions     |-> {x \in sessions : x.id \notin ids},
    messages     |-> {m \in messages : m.session_id \notin ids},
    mood_entries |-> {e \in mood_entries : e.session_id \notin ids} ]

NoRecords == [sessions |-> {}, messages |-> {}, mood_entries |-> {}]

\* C13: when delete_user_data for session s has returned its 200 and no
\* other request ran, the store holds no session, message or mood entry of
\* s, and no step of the request changed a record of another session.
C13_DeleteRemovesSessionOnly ==
  /\ [](del.pc = "done" => RecordsOf({del.session_id[1]}) = NoRecords)
  /\ [][del.pc # "done" =>
          LET others == RecordsNotOf({KnownSession})
          IN others' = others]_vars

\* C13 witness: the delete of KnownSession has returned, it removed
\* messages, and OtherSession still has its session, messages and mood entry
C13_Witness ==
  /\ del.pc = "done"
  /\ del.session_id = Some(KnownSession)
  /\ removed # {}
  /\ RecordsOf({OtherSession}).sessions # {}
  /\ Cardinality(RecordsOf({OtherSession}).messages) = MaxStored
  /\ RecordsOf({OtherSession}).mood_entries # {}

\* a session last active more than 30 days before now
Stale(session) == clock - session.last_activity > 30 * TicksPerDay

StaleIds == {x.id : x \in {y \in sessions : Stale(y)}}

\* C14: the sweep takes exactly the sessions last active more than 30 days
\* ago as old; when it has run through, no such session and no message or
\* mood entry of one remains; and no step of it, completed or not, changes
\* a session that is not stale or a message or mood entry stored under
\* another id than a stale session's.
C14_SweepRemovesStaleOnly ==
  /\ [][(sweep.pc = "start" /\ sweep'.pc \in {"found", "done"}) =>
          sweep'.old_session_ids = StaleIds]_vars
  /\ [](sweep.pc = "done" =>
          /\ StaleIds = {}
          /\ RecordsOf(sweep.old_session_ids) = NoRecords)
  /\ [][LET kept == RecordsNotOf(StaleIds) IN
          /\ kept.sessions \subseteq sessions'
          /\ kept.messages \subseteq messages'
          /\ kept.mood_entries \subseteq mood_entries'
          /\ sessions' \subseteq sessions
          /\ messages' \subseteq messages
          /\ mood_entries' \subseteq mood_entries]_vars

\* C14 witness: the sweep has run through and removed the messages of the
\* stale KnownSession, and OtherSession, last active exactly 30 days ago,
\* has its session, messages and mood entry
C14_Witness ==
  /\ sweep.pc = "done"
  /\ sweep.old_session_ids = {KnownSession}
  /\ removed # {}
  /\ \E x \in sessions :
       x.id = OtherSession /\ clock - x.last_activity = 30 * TicksPerDay
  /\ Cardinality(RecordsOf({OtherSession}).messages) = MaxStored
  /\ RecordsOf({OtherSession}).mood_entries # {}

-----------------------------------------------------------------------------
(* The claims about requests and the stored messages                       *)

\* C15: a request that names a session id the store has no session of is
\* answered 404 and stores nothing: get_session answers 404, and a /chat
\* turn for such an id inserts no message and does not answer 200.
C15_UnknownSessionNotFound ==
  /\ (fetch # None /\ find_one(sessions, fetch[1].session_id) = None) =>
        fetch[1].response.status = 404
  /\ \A m \in messages : m.session_id # UnknownSession
  /\ \A t \in Turns :
        (turn[t].session_id = Some(UnknownSession) /\ turn[t].response # None) =>
           turn[t].response[1].status = 404

\* the half of C15 that get_session meets
GetSessionNotFound ==
  fetch # None =>
     /\ fetch[1].session_id = UnknownSession => fetch[1].response = Error404
     /\ fetch[1].session_id = KnownSession => fetch[1].response.status = 200

\* analyze_sentiment of each message a request of the model carries
SentimentOf == [m \in ChatTexts |-> analyze_sentiment(m)]

\* C16: every stored user message carries the compound score and the label
\* of analyze_sentiment and the answer of detect_crisis for its own content,
\* every stored reply has no score, no label and crisis_detected false, and
\* no step changes a message that is stored: a message of the same id is
\* the same message after the step.
C16_MessagesScoredOnceAtCreation ==
  /\ [](\A m \in messages :
          IF m.is_user
            THEN /\ m.content \in ChatTexts
                 /\ m.sentiment_score = Some(SentimentOf[m.content].compound)
                 /\ m.sentiment_label = Some(SentimentOf[m.content].label)
                 /\ m.crisis_detected = CrisisOf[m.content]
            ELSE /\ m.sentiment_score = None
                 /\ m.sentiment_label = None
                 /\ m.crisis_detected = FALSE)
  /\ [][\A m \in messages : \A n \in messages' : m.id = n.id => m = n]_vars

\* C16 witness: a completed crisis turn whose user message is stored with
\* its negative score and its flag, and a reply stored after it
C16_Witness ==
  \E t \in Turns :
     /\ turn[t].pc = "done"
     /\ \E m, r \in messages :
          /\ m.id = turn[t].user_message_id[1]
          /\ m.is_user /\ m.crisis_detected
          /\ m.sentiment_label = Some("negative")
          /\ ~r.is_user
          /\ r.session_id = m.session_id
          /\ r.timestamp > m.timestamp
          /\ r.content = turn[t].ai_response[1]

\* C17: the history fetched for a turn does not hold the user message of
\* that turn, so the context names it once, as its last entry.
C17_CurrentMessageOnce ==
  \A t \in Turns :
     turn[t].pc = "Generating" =>
        /\ \A i \in 1..Len(turn[t].recent) :
              turn[t].recent[i].id # turn[t].user_message_id[1]
        /\ turn[t].context[Len(turn[t].context)] =
              [role |-> "user", content |-> turn[t].message]

\* what the code does instead: unless a delete removed it in between, the
\* history holds the user message of the turn, inserted before the fetch
HistoryRepeatsCurrentMessage ==
  \A t \in Turns :
     (turn[t].pc = "Generating" /\ turn[t].user_message_id[1] \notin removed) =>
        \E i \in 1..Len(turn[t].recent) :
           /\ turn[t].recent[i].id = turn[t].user_message_id[1]
           /\ turn[t].context[Len(turn[t].context) - i] =
                [role |-> "user", content |-> turn[t].message]

\* C18: when the delete of session s has returned and every chat turn has
\* completed, each of them a turn for s whose user message was stored before
\* the delete removed the messages of s, the store holds no message of s and
\* every stored message belongs to a session of db.sessions.
C18_DeleteLeavesNoMessage ==
  ( /\ del.pc = "done"
    /\ \A t \in Turns :
         \/ turn[t].pc = "idle"
         \/ /\ turn[t].pc = "done"
            /\ turn[t].session_id = del.session_id
            /\ turn[t].user_message_id[1] \in removed )
  => /\ \A m \in messages : m.session_id # del.session_id[1]
     /\ \A m \in messages : \E x \in sessions : x.id = m.session_id

=============================================================================
